---- MODULE Spec2Model ----
(***************************************************************************)
(* Canvas -> Todoist synchronisation (src/sync.py) as a state machine.     *)
(*                                                                         *)
(* One run of sync_canvas_to_todoist is a sequence of steps: validate the  *)
(* configuration, load the ledger file, fetch the feed, resolve the        *)
(* project, the disappearance pass (one step per ledger entry absent from  *)
(* the feed), the per-event pass (one step per event) and SyncState.save   *)
(* (open-and-truncate, then dump).  Every remote call may fail; the        *)
(* process may be killed between any two steps.  Time is counted in whole  *)
(* days and advances between runs.                                         *)
(***************************************************************************)
EXTENDS Integers, Sequences, FiniteSets, TLC

\* ------------------------------------------------------------------ bounds
NumUids == 2      \* distinct event uids the feed can carry
MaxNow == 1       \* the clock runs over 0..MaxNow (days)
MaxDue == 2       \* due dates of feed events lie in 1..MaxDue (days)
MaxTasks == 2     \* the task store accepts at most this many created tasks
MaxRuns == 2      \* scheduled runs with a freshly fetched feed
PrioTicks == 2    \* parts of a day the clock of a priority call counts
PrioMaxDays == 8  \* a priority call sees due dates up to this many days ahead

\* ------------------------------------------------------- program constants
DEFAULT_PRIORITY == 1
REMINDER_DAYS_BEFORE == 1

PRIORITY_THRESHOLDS == [t \in {1, 3, 7} |-> CASE t = 1 -> 4 [] t = 3 -> 3 [] t = 7 -> 2]

\* ------------------------------------------------------------ input sets
Uids == 1..NumUids
Summaries == {<<"a">>, <<"b">>}
Descriptions == {<<>>, <<"x">>}
Digits == <<"0", "1", "2", "3", "4", "5", "6", "7", "8", "9">>

VARIABLES
    pc,            \* position of the run ("idle" between runs)
    now,           \* the clock, in days
    file,          \* the ledger file on disk
    state,         \* SyncState.state of the running process
    events,        \* the parsed event list of the run
    idx,           \* index of the next event of the per-event pass
    todo,          \* ledger uids the disappearance pass has still to visit
    stats,         \* the run's counters
    tasks,         \* the task store: task id i is tasks[i]
    project,       \* whether the destination project exists in the store
    labels_cache,  \* whether TodoistSync._labels_cache is loaded
    calls,         \* the remote calls and completed saves of the run, in order
    rerun,         \* this run repeats the previous completed run's feed
    prevFailed,    \* uids whose create_task failed in the run before a rerun
    runs,          \* scheduled runs started so far
    prio           \* a call of calculate_priority on its own: inputs, then <<result>>

vars == <<pc, now, file, state, events, idx, todo, stats, tasks, project,
          labels_cache, calls, rerun, prevFailed, runs, prio>>

\* ------------------------------------------------------------- the ledger
NoSync == -1
NoEntries == [u \in {} |-> 0]
EmptyState == [synced_events |-> NoEntries, last_sync |-> NoSync]

MissingFile == [kind |-> "missing", data |-> EmptyState]
PartialFile == [kind |-> "corrupt", data |-> EmptyState]
ValidFile(st) == [kind |-> "valid", data |-> st]

\* SyncState._load: a missing file, or one json.load cannot parse, is an
\* empty ledger.
_load(f) == IF f.kind = "valid" THEN f.data ELSE EmptyState

get_all_synced_uids(st) == DOMAIN st.synced_events

get_synced_event(st, event_uid) == st.synced_events[event_uid]

has_synced_event(st, event_uid) == event_uid \in DOMAIN st.synced_events

\* mark_synced called with the digest and the due date swapped.
mark_synced_Swapped(st, event_uid, todoist_task_id, event_hash, due_date) ==
    [st EXCEPT !.synced_events =
        [u \in DOMAIN st.synced_events \cup {event_uid} |->
            IF u = event_uid
            THEN [todoist_task_id |-> todoist_task_id,
                  event_hash |-> due_date,
                  synced_at |-> now,
                  due_date |-> event_hash]
            ELSE st.synced_events[u]]]

mark_synced(st, event_uid, todoist_task_id, event_hash, due_date) ==
    [st EXCEPT !.synced_events =
        [u \in DOMAIN st.synced_events \cup {event_uid} |->
            IF u = event_uid
            THEN [todoist_task_id |-> todoist_task_id,
                  event_hash |-> event_hash,
                  synced_at |-> now,
                  due_date |-> due_date]
            ELSE st.synced_events[u]]]

mark_completed(st, event_uid) ==
    [st EXCEPT !.synced_events =
        [u \in DOMAIN st.synced_events \ {event_uid} |-> st.synced_events[u]]]

\* ------------------------------------------------------------- the events
\* datetime.isoformat and datetime.fromisoformat, on whole days.
isoformat(d) == <<"D", Digits[d + 1]>>

fromisoformat(s) == CHOOSE d \in 0..(Len(Digits) - 1) : isoformat(d) = s

\* compute_event_hash with the priority among the digested fields.
compute_event_hash_WithPriority(event) ==
    event.summary \o <<"|">> \o event.due_date \o <<"|">> \o event.description
        \o <<"|", Digits[event.priority + 1]>>

\* compute_event_hash: the digest of "summary|due_date|description"; md5 is
\* taken to be injective on the concatenation.
compute_event_hash(event) ==
    event.summary \o <<"|">> \o event.due_date \o <<"|">> \o event.description

Min(S) == CHOOSE x \in S : \A y \in S : x <= y

\* timedelta.days of a difference of two instants counted in units of which
\* `day` make one day: Python floors, also below zero.
timedelta_days(delta, day) == delta \div day

\* sorted(...) of a set of integers.
RECURSIVE sorted(_)
sorted(S) == IF S = {} THEN <<>> ELSE <<Min(S)>> \o sorted(S \ {Min(S)})

\* reaches with the comparison made strict.
reaches_Strict(days_until_due, threshold_days) == days_until_due < threshold_days

\* The test of the threshold loop.
reaches(days_until_due, threshold_days) == days_until_due <= threshold_days

\* The threshold loop: the first item, in the order given, that the days
\* reach decides; DEFAULT_PRIORITY when the loop runs out.
RECURSIVE first_threshold(_, _)
first_threshold(days_until_due, items) ==
    IF items = <<>> THEN DEFAULT_PRIORITY
    ELSE IF reaches(days_until_due, Head(items))
         THEN PRIORITY_THRESHOLDS[Head(items)]
         ELSE first_threshold(days_until_due, Tail(items))

\* calculate_priority for instants counted in units of which `day` make one
\* day.
priority_at(due, at, day) ==
    first_threshold(timedelta_days(due - at, day),
                    sorted(DOMAIN PRIORITY_THRESHOLDS))

\* calculate_priority on the clock of the runs, which counts whole days.
calculate_priority(due, at) == priority_at(due, at, 1)

\* parse_ics_events: one record per VEVENT that is not yet past.
ParsedEvent(uid, summary, description, due) ==
    [uid |-> uid, summary |-> summary, description |-> description,
     due_date |-> isoformat(due), due_datetime |-> due,
     priority |-> calculate_priority(due, now)]

UpcomingEvents ==
    {ParsedEvent(u, s, d, t) :
        u \in Uids, s \in Summaries, d \in Descriptions,
        t \in {x \in 1..MaxDue : ~(x < now)}}

\* The feeds: every list of upcoming events with pairwise distinct uids.
EventLists ==
    {evs \in UNION {[1..n -> UpcomingEvents] : n \in 0..NumUids} :
        \A i, j \in 1..Len(evs) : i # j => evs[i].uid # evs[j].uid}

current_event_uids == {events[i].uid : i \in 1..Len(events)}

\* --------------------------------------------------------- the task store
TaskIds == 1..Len(tasks)

\* api.get_task answers for a task that exists and is not completed.
Live(task_id) == task_id \in TaskIds /\ tasks[task_id].status = "live"

\* TodoistSync.task_exists: any exception of the call is answered False.
task_exists(task_id, callFails) == ~callFails /\ Live(task_id)

Call(op, uid, task, ok) == [op |-> op, uid |-> uid, task |-> task, ok |-> ok]

ZeroStats == [created |-> 0, updated |-> 0, skipped |-> 0, completed |-> 0]

\* --------------------------------------------------------------- control
Running == {"fetch", "project", "disappear", "events", "save", "dump"}
Terminal == {"done", "exit1", "crashed"}

\* The ledger entries the disappearance pass acts on: those whose uid is
\* not in the feed.
Disappeared(st) == {u \in get_all_synced_uids(st) : u \notin current_event_uids}

AfterDisappear(rest) == IF rest = {} THEN "events" ELSE "disappear"

AfterEvent == IF idx + 1 > Len(events) THEN "save" ELSE "events"

\* No call of calculate_priority on its own is traced.
NoPrio == [due |-> 0, at |-> 0, result |-> <<>>]

Init ==
    /\ pc = "idle"
    /\ now = 0
    /\ file = MissingFile
    /\ state = EmptyState
    /\ events = <<>>
    /\ idx = 0
    /\ todo = {}
    /\ stats = ZeroStats
    /\ tasks = <<>>
    /\ project = FALSE
    /\ labels_cache = FALSE
    /\ calls = <<>>
    /\ rerun = FALSE
    /\ prevFailed = {}
    /\ runs = 0
    /\ prio = NoPrio

\* ---------------------------------------------------------------- run start
\* ConfigMissing with the settings validated only after the ledger has been
\* loaded and saved.
ConfigMissing_AfterSave ==
    /\ pc = "idle"
    /\ pc' = "exit1"
    /\ file' = ValidFile([_load(file) EXCEPT !.last_sync = now])
    /\ UNCHANGED <<prio, now, state, events, idx, todo, stats, tasks, project,
                   labels_cache, calls, rerun, prevFailed, runs>>

\* A required setting is missing: sys.exit(1) before anything else.
ConfigMissing ==
    /\ pc = "idle"
    /\ pc' = "exit1"
    /\ UNCHANGED <<prio, now, file, state, events, idx, todo, stats, tasks, project,
                   labels_cache, calls, rerun, prevFailed, runs>>

\* SyncState(STATE_FILE) and TodoistSync(TODOIST_API_TOKEN).
LoadState ==
    /\ pc = "idle"
    /\ runs < MaxRuns
    /\ runs' = runs + 1
    /\ state' = _load(file)
    /\ pc' = "fetch"
    /\ UNCHANGED <<prio, now, file, events, idx, todo, stats, tasks, project,
                   labels_cache, calls, rerun, prevFailed>>

\* FetchFails with the ledger saved on the way out.
FetchFails_Saves ==
    /\ pc = "fetch"
    /\ pc' = "exit1"
    /\ state' = [state EXCEPT !.last_sync = now]
    /\ file' = ValidFile(state')
    /\ UNCHANGED <<prio, now, events, idx, todo, stats, tasks, project,
                   labels_cache, calls, rerun, prevFailed, runs>>

\* fetch_ics_feed or parse_ics_events raises: sys.exit(1).
FetchFails ==
    /\ pc = "fetch"
    /\ pc' = "exit1"
    /\ UNCHANGED <<prio, now, file, state, events, idx, todo, stats, tasks, project,
                   labels_cache, calls, rerun, prevFailed, runs>>

\* The feed is fetched and parsed; an empty list goes straight to save.
FetchOK ==
    /\ pc = "fetch"
    /\ \E evs \in EventLists :
        /\ events' = evs
        /\ pc' = IF evs = <<>> THEN "save" ELSE "project"
    /\ UNCHANGED <<prio, now, file, state, idx, todo, stats, tasks, project,
                   labels_cache, calls, rerun, prevFailed, runs>>

\* get_or_create_project succeeds; the disappearance pass is set up.
GetProject ==
    /\ pc = "project"
    /\ project' = TRUE
    /\ calls' = Append(calls, Call("project", 0, 0, TRUE))
    /\ todo' = Disappeared(state)
    /\ idx' = 1
    /\ pc' = AfterDisappear(todo')
    /\ UNCHANGED <<prio, now, file, state, events, stats, tasks, labels_cache,
                   rerun, prevFailed, runs>>

\* get_projects or add_project raises: nothing catches it.
ProjectFails ==
    /\ pc = "project"
    /\ calls' = Append(calls, Call("project", 0, 0, FALSE))
    /\ pc' = "crashed"
    /\ UNCHANGED <<prio, now, file, state, events, idx, todo, stats, tasks, project,
                   labels_cache, rerun, prevFailed, runs>>

\* ------------------------------------------------- the disappearance pass
Entry(u) == get_synced_event(state, u)

\* SkipPastDue without the test of the due snapshot: the task is checked
\* and completed as for a future one.
SkipPastDue_Completes ==
    /\ pc = "disappear"
    /\ \E u \in todo :
        LET task_id == Entry(u).todoist_task_id IN
        /\ ~(fromisoformat(Entry(u).due_date) > now)
        /\ calls' = calls \o <<Call("exists", u, task_id, TRUE),
                               Call("complete", u, task_id, TRUE)>>
        /\ state' = mark_completed(state, u)
        /\ todo' = todo \ {u}
        /\ pc' = AfterDisappear(todo')
    /\ UNCHANGED <<prio, now, file, events, idx, stats, tasks, project,
                   labels_cache, rerun, prevFailed, runs>>

\* The due snapshot is not in the future: the entry is left as it is.
SkipPastDue ==
    /\ pc = "disappear"
    /\ \E u \in todo :
        /\ ~(fromisoformat(Entry(u).due_date) > now)
        /\ todo' = todo \ {u}
        /\ pc' = AfterDisappear(todo')
    /\ UNCHANGED <<prio, now, file, state, events, idx, stats, tasks, project,
                   labels_cache, calls, rerun, prevFailed, runs>>

\* The due snapshot is in the future, the task exists and complete_task
\* succeeds.
RetireCompleted ==
    /\ pc = "disappear"
    /\ \E u \in todo :
        LET task_id == Entry(u).todoist_task_id IN
        /\ fromisoformat(Entry(u).due_date) > now
        /\ task_exists(task_id, FALSE)
        /\ tasks' = [tasks EXCEPT ![task_id].status = "done"]
        /\ stats' = [stats EXCEPT !.completed = @ + 1]
        /\ calls' = calls \o <<Call("exists", u, task_id, TRUE),
                               Call("complete", u, task_id, TRUE)>>
        /\ state' = mark_completed(state, u)
        /\ todo' = todo \ {u}
        /\ pc' = AfterDisappear(todo')
    /\ UNCHANGED <<prio, now, file, events, idx, project, labels_cache, rerun,
                   prevFailed, runs>>

\* As before, but close_task raises: complete_task answers False.
RetireCompleteFails ==
    /\ pc = "disappear"
    /\ \E u \in todo :
        LET task_id == Entry(u).todoist_task_id IN
        /\ fromisoformat(Entry(u).due_date) > now
        /\ task_exists(task_id, FALSE)
        /\ calls' = calls \o <<Call("exists", u, task_id, TRUE),
                               Call("complete", u, task_id, FALSE)>>
        /\ state' = mark_completed(state, u)
        /\ todo' = todo \ {u}
        /\ pc' = AfterDisappear(todo')
    /\ UNCHANGED <<prio, now, file, events, idx, stats, tasks, project,
                   labels_cache, rerun, prevFailed, runs>>

\* The due snapshot is in the future and task_exists answers False (the
\* task is gone, or get_task raised): no completion call.
RetireNotFound ==
    /\ pc = "disappear"
    /\ \E u \in todo, existsFails \in BOOLEAN :
        LET task_id == Entry(u).todoist_task_id IN
        /\ fromisoformat(Entry(u).due_date) > now
        /\ ~task_exists(task_id, existsFails)
        /\ calls' = Append(calls, Call("exists", u, task_id, ~existsFails))
        /\ state' = mark_completed(state, u)
        /\ todo' = todo \ {u}
        /\ pc' = AfterDisappear(todo')
    /\ UNCHANGED <<prio, now, file, events, idx, stats, tasks, project,
                   labels_cache, rerun, prevFailed, runs>>

\* ------------------------------------------------------ the per-event pass
Event == events[idx]

Synced == has_synced_event(state, Event.uid)

Unchanged ==
    /\ Synced
    /\ get_synced_event(state, Event.uid).event_hash = compute_event_hash(Event)

\* The event has an entry, its digest differs and task_exists answers True.
TakesUpdate ==
    /\ Synced
    /\ ~Unchanged
    /\ task_exists(get_synced_event(state, Event.uid).todoist_task_id, FALSE)

\* The event has no entry, or its digest differs and task_exists answers
\* False (the task is gone, or get_task raised).
TakesCreate(existsFails) ==
    \/ ~Synced /\ ~existsFails
    \/ /\ Synced
       /\ ~Unchanged
       /\ ~task_exists(get_synced_event(state, Event.uid).todoist_task_id,
                       existsFails)

\* The calls of the create path before create_task: the existence check of
\* a stale entry, and the label listing of the first get_or_create_label.
PreCreateCalls(existsFails, labelsOk) ==
    (IF Synced
     THEN <<Call("exists", Event.uid,
                 get_synced_event(state, Event.uid).todoist_task_id,
                 ~existsFails)>>
     ELSE <<>>)
    \o (IF labels_cache THEN <<>> ELSE <<Call("labels", Event.uid, 0, labelsOk)>>)

\* add_reminder is requested when the reminder instant is in the future.
ReminderCalls(task_id) ==
    IF REMINDER_DAYS_BEFORE > 0
       /\ Event.due_datetime - REMINDER_DAYS_BEFORE > now
    THEN <<Call("reminder", Event.uid, task_id, TRUE)>>
    ELSE <<>>

SkipUnchanged ==
    /\ pc = "events"
    /\ Unchanged
    /\ stats' = [stats EXCEPT !.skipped = @ + 1]
    /\ idx' = idx + 1
    /\ pc' = AfterEvent
    /\ UNCHANGED <<prio, now, file, state, events, todo, tasks, project,
                   labels_cache, calls, rerun, prevFailed, runs>>

UpdateChanged ==
    /\ pc = "events"
    /\ TakesUpdate
    /\ LET task_id == get_synced_event(state, Event.uid).todoist_task_id IN
        /\ tasks' = [tasks EXCEPT ![task_id].priority = Event.priority]
        /\ calls' = calls \o <<Call("exists", Event.uid, task_id, TRUE),
                               Call("update", Event.uid, task_id, TRUE)>>
        /\ state' = mark_synced(state, Event.uid, task_id,
                                compute_event_hash(Event), Event.due_date)
    /\ stats' = [stats EXCEPT !.updated = @ + 1]
    /\ idx' = idx + 1
    /\ pc' = AfterEvent
    /\ UNCHANGED <<prio, now, file, events, todo, project, labels_cache, rerun,
                   prevFailed, runs>>

\* UpdateFails with the entry of the task that could not be updated dropped.
UpdateFails_DropsEntry ==
    /\ pc = "events"
    /\ TakesUpdate
    /\ LET task_id == get_synced_event(state, Event.uid).todoist_task_id IN
        calls' = calls \o <<Call("exists", Event.uid, task_id, TRUE),
                            Call("update", Event.uid, task_id, FALSE)>>
    /\ state' = mark_completed(state, Event.uid)
    /\ pc' = "crashed"
    /\ UNCHANGED <<prio, now, file, events, idx, todo, stats, tasks, project,
                   labels_cache, rerun, prevFailed, runs>>

\* api.update_task raises: the call is in no try block, the run dies.
UpdateFails ==
    /\ pc = "events"
    /\ TakesUpdate
    /\ LET task_id == get_synced_event(state, Event.uid).todoist_task_id IN
        calls' = calls \o <<Call("exists", Event.uid, task_id, TRUE),
                            Call("update", Event.uid, task_id, FALSE)>>
    /\ pc' = "crashed"
    /\ UNCHANGED <<prio, now, file, state, events, idx, todo, stats, tasks, project,
                   labels_cache, rerun, prevFailed, runs>>

\* get_labels raises in get_or_create_label, outside the try block.
LabelsFail ==
    /\ pc = "events"
    /\ ~labels_cache
    /\ \E existsFails \in BOOLEAN :
        /\ TakesCreate(existsFails)
        /\ calls' = calls \o PreCreateCalls(existsFails, FALSE)
    /\ pc' = "crashed"
    /\ UNCHANGED <<prio, now, file, state, events, idx, todo, stats, tasks, project,
                   labels_cache, rerun, prevFailed, runs>>

CreateTask ==
    /\ pc = "events"
    /\ Len(tasks) < MaxTasks
    /\ \E existsFails \in BOOLEAN :
        LET task_id == Len(tasks) + 1 IN
        /\ TakesCreate(existsFails)
        /\ tasks' = Append(tasks, [status |-> "live", uid |-> Event.uid,
                                   priority |-> Event.priority])
        /\ calls' = calls \o PreCreateCalls(existsFails, TRUE)
                          \o <<Call("create", Event.uid, task_id, TRUE)>>
                          \o ReminderCalls(task_id)
        /\ state' = mark_synced(state, Event.uid, task_id,
                                compute_event_hash(Event), Event.due_date)
    /\ stats' = [stats EXCEPT !.created = @ + 1]
    /\ labels_cache' = TRUE
    /\ idx' = idx + 1
    /\ pc' = AfterEvent
    /\ UNCHANGED <<prio, now, file, events, todo, project, rerun, prevFailed, runs>>

\* CreateFails with the entry recorded before add_task has returned.
CreateFails_MarksFirst ==
    /\ pc = "events"
    /\ \E existsFails \in BOOLEAN :
        /\ TakesCreate(existsFails)
        /\ calls' = calls \o PreCreateCalls(existsFails, TRUE)
                          \o <<Call("create", Event.uid, 0, FALSE)>>
    /\ state' = mark_synced(state, Event.uid, 0, compute_event_hash(Event),
                            Event.due_date)
    /\ labels_cache' = TRUE
    /\ idx' = idx + 1
    /\ pc' = AfterEvent
    /\ UNCHANGED <<prio, now, file, events, todo, stats, tasks, project,
                   rerun, prevFailed, runs>>

\* api.add_task raises: caught and logged, the loop goes on.
CreateFails ==
    /\ pc = "events"
    /\ \E existsFails \in BOOLEAN :
        /\ TakesCreate(existsFails)
        /\ calls' = calls \o PreCreateCalls(existsFails, TRUE)
                          \o <<Call("create", Event.uid, 0, FALSE)>>
    /\ labels_cache' = TRUE
    /\ idx' = idx + 1
    /\ pc' = AfterEvent
    /\ UNCHANGED <<prio, now, file, state, events, todo, stats, tasks, project,
                   rerun, prevFailed, runs>>

\* -------------------------------------------------------- SyncState.save
\* last_sync is stamped and open(state_file, "w") truncates the file.
SaveOpen ==
    /\ pc = "save"
    /\ state' = [state EXCEPT !.last_sync = now]
    /\ file' = PartialFile
    /\ pc' = "dump"
    /\ UNCHANGED <<prio, now, events, idx, todo, stats, tasks, project,
                   labels_cache, calls, rerun, prevFailed, runs>>

\* json.dump writes the ledger and the file is closed.
SaveDump ==
    /\ pc = "dump"
    /\ file' = ValidFile(state)
    /\ calls' = Append(calls, Call("save", 0, 0, TRUE))
    /\ pc' = "done"
    /\ UNCHANGED <<prio, now, state, events, idx, todo, stats, tasks, project,
                   labels_cache, rerun, prevFailed, runs>>

\* ------------------------------------------------------- the environment
\* What is left of a process that has ended: the file and the store.
Reset ==
    /\ pc' = "idle"
    /\ state' = EmptyState
    /\ events' = <<>>
    /\ idx' = 0
    /\ todo' = {}
    /\ stats' = ZeroStats
    /\ labels_cache' = FALSE
    /\ calls' = <<>>
    /\ rerun' = FALSE
    /\ prevFailed' = {}
    /\ UNCHANGED <<prio, now, file, tasks, project, runs>>

\* The process is killed from outside between two steps.
Kill ==
    /\ pc \in Running
    /\ Reset

\* The process has ended by itself (return, sys.exit or an exception).
Exit ==
    /\ pc \in Terminal
    /\ Reset

\* A day passes between two runs.
Tick ==
    /\ pc = "idle"
    /\ now < MaxNow
    /\ now' = now + 1
    /\ UNCHANGED <<prio, pc, file, state, events, idx, todo, stats, tasks, project,
                   labels_cache, calls, rerun, prevFailed, runs>>

FailedCreates == {calls[i].uid : i \in {j \in 1..Len(calls) :
                                        calls[j].op = "create" /\ ~calls[j].ok}}

\* The scheduler starts the next run right after a completed one and the
\* feed yields the same event list again: the ledger is loaded from the
\* file and the run proceeds from the fetch.
Rerun ==
    /\ pc = "done"
    /\ ~rerun
    /\ rerun' = TRUE
    /\ prevFailed' = FailedCreates
    /\ state' = _load(file)
    /\ idx' = 0
    /\ todo' = {}
    /\ stats' = ZeroStats
    /\ labels_cache' = FALSE
    /\ calls' = <<>>
    /\ pc' = IF events = <<>> THEN "save" ELSE "project"
    /\ UNCHANGED <<prio, now, file, events, tasks, project, runs>>

Next ==
    \/ ConfigMissing
    \/ LoadState
    \/ FetchFails
    \/ FetchOK
    \/ GetProject
    \/ ProjectFails
    \/ SkipPastDue
    \/ RetireCompleted
    \/ RetireCompleteFails
    \/ RetireNotFound
    \/ SkipUnchanged
    \/ UpdateChanged
    \/ UpdateFails
    \/ LabelsFail
    \/ CreateTask
    \/ CreateFails
    \/ SaveOpen
    \/ SaveDump
    \/ Kill
    \/ Exit
    \/ Tick
    \/ Rerun

Spec == Init /\ [][Next]_vars

\* --------------------------------------------- the store changed by its user
\* Between two runs the user completes or deletes a task in the store:
\* get_task then no longer answers an open task.
UserClosesTask ==
    /\ pc = "idle"
    /\ \E task_id \in TaskIds :
        /\ Live(task_id)
        /\ tasks' = [tasks EXCEPT ![task_id].status = "done"]
    /\ UNCHANGED <<prio, pc, now, file, state, events, idx, todo, stats, project,
                   labels_cache, calls, rerun, prevFailed, runs>>

\* The runs, each ending by itself, with the user acting between them.
NextExternal ==
    \/ ConfigMissing
    \/ LoadState
    \/ FetchFails
    \/ FetchOK
    \/ GetProject
    \/ ProjectFails
    \/ SkipPastDue
    \/ RetireCompleted
    \/ RetireCompleteFails
    \/ RetireNotFound
    \/ SkipUnchanged
    \/ UpdateChanged
    \/ UpdateFails
    \/ LabelsFail
    \/ CreateTask
    \/ CreateFails
    \/ SaveOpen
    \/ SaveDump
    \/ Exit
    \/ Tick
    \/ UserClosesTask

SpecExternal == Init /\ [][NextExternal]_vars

\* ------------------------------------------------ runs that end by themselves
\* The scheduled runs when no process is killed and nobody else touches the
\* store: every run ends by return, sys.exit or an uncaught exception.
NextTerminating ==
    \/ ConfigMissing
    \/ LoadState
    \/ FetchFails
    \/ FetchOK
    \/ GetProject
    \/ ProjectFails
    \/ SkipPastDue
    \/ RetireCompleted
    \/ RetireCompleteFails
    \/ RetireNotFound
    \/ SkipUnchanged
    \/ UpdateChanged
    \/ UpdateFails
    \/ LabelsFail
    \/ CreateTask
    \/ CreateFails
    \/ SaveOpen
    \/ SaveDump
    \/ Exit
    \/ Tick
    \/ Rerun

SpecTerminating == Init /\ [][NextTerminating]_vars

\* ------------------------------------------------- calculate_priority alone
\* calculate_priority called on its own, with instants counted in PrioTicks
\* parts of a day: due dates up to PrioMaxDays days and a part ahead of the
\* origin, the clock anywhere in its first two days.
PrioDues == 0..((PrioMaxDays + 1) * PrioTicks)
PrioNows == 0..(2 * PrioTicks)

InitPriority ==
    /\ pc = "idle"
    /\ now = 0
    /\ file = MissingFile
    /\ state = EmptyState
    /\ events = <<>>
    /\ idx = 0
    /\ todo = {}
    /\ stats = ZeroStats
    /\ tasks = <<>>
    /\ project = FALSE
    /\ labels_cache = FALSE
    /\ calls = <<>>
    /\ rerun = FALSE
    /\ prevFailed = {}
    /\ runs = 0
    /\ prio \in [due : PrioDues, at : PrioNows, result : {<<>>}]

CalcPriority ==
    /\ prio.result = <<>>
    /\ prio' = [prio EXCEPT
                 !.result = <<priority_at(prio.due, prio.at, PrioTicks)>>]
    /\ UNCHANGED <<pc, now, file, state, events, idx, todo, stats, tasks,
                   project, labels_cache, calls, rerun, prevFailed, runs>>

NextPriority == CalcPriority

SpecPriority == InitPriority /\ [][NextPriority]_vars

\* =================================================================== claims
CallIdx == 1..Len(calls)

Mutating == {"create", "update"}

NumCalls(op, u) ==
    Cardinality({i \in CallIdx : calls[i].op = op /\ calls[i].uid = u})

Saves == Cardinality({i \in CallIdx : calls[i].op = "save"})

\* The ledger the run started from: until save opens the file, the file
\* holds what _load read.
Loaded == _load(file)

EntryOrNone(st, u) ==
    IF u \in DOMAIN st.synced_events THEN <<st.synced_events[u]>> ELSE <<>>

\* ------------------------------------------------------------------- C1
\* C1 (as claimed): a second run over the same event list, with the ledger
\* a completed run over that list produced, issues no create_task and no
\* update_task call and counts every event as skipped.
C1_Idempotence ==
    (rerun /\ pc = "done") =>
        /\ \A i \in CallIdx : calls[i].op \notin Mutating
        /\ stats.skipped = Len(events)

\* C1 (amended): in such a second run the only create_task or update_task
\* calls are for events whose create_task failed in the first run, and once
\* the per-event pass is over every other event has been counted as
\* skipped.
C1_IdempotenceAmended ==
    rerun =>
        /\ \A i \in CallIdx :
            calls[i].op \in Mutating => calls[i].uid \in prevFailed
        /\ pc \in {"save", "dump", "done"} =>
            stats.skipped =
                Cardinality({j \in 1..Len(events) : events[j].uid \notin prevFailed})

\* A completed second run over two events, one skipped and one whose create
\* had failed in the first run.
C1_Witness ==
    /\ rerun
    /\ pc = "done"
    /\ Len(events) = 2
    /\ stats.skipped = 1
    /\ Cardinality(prevFailed) = 1

\* ------------------------------------------------------------------- C2
\* C2: when the per-event pass is over (the run is about to save), every
\* entry the run loaded whose uid is not in the event list (the empty list
\* included) and whose due snapshot is later than now is gone from the
\* ledger, and its task, if it is still live, has had a completion call.
C2_DisappearedFutureRetired ==
    pc = "save" =>
        \A u \in DOMAIN Loaded.synced_events :
            LET e == Loaded.synced_events[u] IN
            (u \notin current_event_uids /\ fromisoformat(e.due_date) > now) =>
                /\ u \notin DOMAIN state.synced_events
                /\ Live(e.todoist_task_id) =>
                    \E i \in CallIdx :
                        /\ calls[i].op = "complete"
                        /\ calls[i].task = e.todoist_task_id

\* ------------------------------------------------------------------- C3
\* C3: a failed create_task or update_task does not abort the run: no run
\* that has seen such a failure ends by an uncaught exception.
C3_FailureIsolation ==
    pc = "crashed" =>
        \A i \in CallIdx : calls[i].op \in Mutating => calls[i].ok

\* ------------------------------------------------------------------- C4
\* C4: a step in which create_task or update_task fails for an event leaves
\* that event's in-memory ledger entry as it was: absent stays absent, and
\* an existing entry keeps task id, digest, due snapshot and synced_at.
C4_FailureLeavesEntry ==
    [][\A i \in 1..Len(calls') :
        (/\ i > Len(calls)
         /\ pc = "events"
         /\ calls'[i].op \in Mutating
         /\ ~calls'[i].ok)
        => EntryOrNone(state', calls'[i].uid) = EntryOrNone(state, calls'[i].uid)]_vars

\* A create_task has failed for an event that has a (stale) ledger entry.
C4_Witness ==
    \E i \in CallIdx :
        /\ calls[i].op = "create"
        /\ ~calls[i].ok
        /\ calls[i].uid \in DOMAIN state.synced_events

\* ------------------------------------------------------------------- C5
\* C5: an existence check that failed (get_task raised) for an event is
\* never followed, in that run, by a create_task call for the same event.
C5_ExistsFailureNotMissing ==
    \A i, j \in CallIdx :
        ~(/\ i < j
          /\ calls[i].op = "exists"
          /\ ~calls[i].ok
          /\ calls[j].op = "create"
          /\ calls[j].uid = calls[i].uid)

\* ------------------------------------------------------------------- C6
\* The ledger in force: the in-memory one while the process runs, the file
\* once it has ended.
CurrentLedger == IF pc \in Running THEN state ELSE Loaded

\* C6: at every point of a run and at its end, each event uid has one
\* ledger entry at most (the ledger is a function of the uid) and that
\* entry names a task that is live in the task store.
C6_EntryNamesLiveTask ==
    pc # "idle" =>
        \A u \in DOMAIN CurrentLedger.synced_events :
            Live(CurrentLedger.synced_events[u].todoist_task_id)

\* ------------------------------------------------------------------- C7
\* The event differs in exactly one of summary, due timestamp and
\* description from an event whose digest is the recorded one.
OneFieldChanged(entry, event) ==
    \E s \in Summaries, d \in Descriptions, t \in 1..MaxDue :
        LET old == ParsedEvent(event.uid, s, d, t) IN
        /\ entry.event_hash = compute_event_hash(old)
        /\ Cardinality({f \in {"summary", "due_date", "description"} :
                            old[f] # event[f]}) = 1

\* C7: processing an event that has a ledger entry, whose task is live and
\* of which one of the three fields changed, issues one update_task call
\* and no create_task call and leaves the entry with the same task id, the
\* new digest and the new due snapshot.
C7_DigestSensitivity ==
    [][(/\ pc = "events"
        /\ pc' # "idle"
        /\ Synced
        /\ Live(get_synced_event(state, Event.uid).todoist_task_id)
        /\ OneFieldChanged(get_synced_event(state, Event.uid), Event))
       => LET new == SubSeq(calls', Len(calls) + 1, Len(calls'))
              old == get_synced_event(state, Event.uid)
          IN  /\ Cardinality({i \in 1..Len(new) : new[i].op = "update"}) = 1
              /\ \A i \in 1..Len(new) : new[i].op # "create"
              /\ Event.uid \in DOMAIN state'.synced_events
              /\ state'.synced_events[Event.uid].todoist_task_id = old.todoist_task_id
              /\ state'.synced_events[Event.uid].event_hash = compute_event_hash(Event)
              /\ state'.synced_events[Event.uid].due_date = Event.due_date]_vars

\* ------------------------------------------------------------------- C8
\* C8: a run that got past the fetch has saved the ledger exactly once when
\* it ends, as its last act, and no run saves twice.
C8_SavedOncePerRun ==
    /\ Saves <= 1
    /\ pc \in {"done", "crashed"} =>
        /\ Saves = 1
        /\ calls[Len(calls)].op = "save"

\* ------------------------------------------------------------------- C9
\* C9: whenever the process has ended, however save was interrupted, the
\* ledger file is not one that json.load cannot parse.
C9_AtomicSave == pc = "idle" => file.kind # "corrupt"

\* ------------------------------------------------------------------ C10
\* C10: a run that found the ledger file missing or unparseable loads an
\* empty ledger, does not die, and reaches save with exactly one
\* create_task call for every event of the feed.
C10_CorruptLedgerRecovery ==
    (file.kind # "valid" /\ pc \in {"fetch", "project", "disappear", "events",
                                    "save", "crashed"}) =>
        /\ pc = "fetch" => state.synced_events = NoEntries
        /\ pc # "crashed"
        /\ pc = "save" =>
            \A j \in 1..Len(events) : NumCalls("create", events[j].uid) = 1

\* ------------------------------------------------------------------ C11
\* C11: a run that leaves the fetch without an event list (the fetch or the
\* parse failed) ends with exit status 1, having made no task-store call,
\* changed no ledger entry and not written the ledger file, whose
\* last-sync stamp stays as it was.
C11_FatalFeedFailure ==
    [][(pc = "fetch" /\ pc' \notin {"save", "project", "idle"}) =>
        /\ pc' = "exit1"
        /\ calls' = <<>>
        /\ tasks' = tasks
        /\ project' = project
        /\ state' = state
        /\ file' = file]_vars

\* A run over a ledger with an entry has ended at the failed fetch.
C11_Witness ==
    /\ pc = "exit1"
    /\ state.synced_events # NoEntries
    /\ file = ValidFile(state)

\* ------------------------------------------------------------------ C12
\* C12: for a ledger entry the run loaded whose uid is not in the event
\* list and whose due snapshot is not later than now, the run makes no
\* existence check and no completion call for the entry's task.
C12_PastDueNoCompletion ==
    pc \in {"disappear", "events", "save", "crashed"} =>
        \A u \in DOMAIN Loaded.synced_events :
            LET e == Loaded.synced_events[u] IN
            (u \notin current_event_uids /\ ~(fromisoformat(e.due_date) > now)) =>
                \A i \in CallIdx :
                    calls[i].op \in {"exists", "complete"} =>
                        calls[i].task # e.todoist_task_id

\* The passes of a run are over and an entry of an absent event whose due
\* snapshot is not in the future is still there.
C12_Witness ==
    /\ pc = "save"
    /\ events # <<>>
    /\ \E u \in DOMAIN Loaded.synced_events :
        /\ u \notin current_event_uids
        /\ ~(fromisoformat(Loaded.synced_events[u].due_date) > now)
        /\ Live(Loaded.synced_events[u].todoist_task_id)

\* ------------------------------------------------------------------ C13
\* C13: a run that stops at the validation of the configuration (it leaves
\* "idle" without loading the ledger) ends with exit status 1, having made
\* no remote call and not written the ledger file.
C13_MissingConfiguration ==
    [][(pc = "idle" /\ pc' \notin {"idle", "fetch"}) =>
        /\ pc' = "exit1"
        /\ calls' = <<>>
        /\ tasks' = tasks
        /\ project' = project
        /\ file' = file]_vars

\* A run has stopped at the validation while a saved ledger exists.
C13_Witness ==
    /\ pc = "exit1"
    /\ state = EmptyState
    /\ file.kind = "valid"

\* ------------------------------------------------------------------ C14
\* C14: calculate_priority returns the tier of the smallest configured
\* threshold t that the whole days until due do not exceed, the default
\* tier when there is none; an event due in exactly t days gets the tier
\* of t.  The whole days d of a difference are the integer with
\* d days <= difference < d + 1 days.
C14_BoundaryPriority ==
    prio.result # <<>> =>
        LET delta == prio.due - prio.at
            d == CHOOSE k \in (0 - 3 * PrioMaxDays)..(3 * PrioMaxDays) :
                     k * PrioTicks <= delta /\ delta < (k + 1) * PrioTicks
            match == {t \in DOMAIN PRIORITY_THRESHOLDS : d <= t}
        IN  /\ match = {} => prio.result[1] = DEFAULT_PRIORITY
            /\ \A t \in match :
                   (\A other \in match : t <= other) =>
                       prio.result[1] = PRIORITY_THRESHOLDS[t]
            /\ \A t \in DOMAIN PRIORITY_THRESHOLDS :
                   delta = t * PrioTicks => prio.result[1] = PRIORITY_THRESHOLDS[t]

\* The priority of an event due in exactly seven days has been computed.
C14_Witness ==
    /\ prio.result # <<>>
    /\ prio.due - prio.at = 7 * PrioTicks
    /\ prio.at > 0

\* ------------------------------------------------------------------ C15
\* C15: when the process is killed during the per-event pass, the ledger the
\* next run will load has an entry for every task the killed run created
\* successfully, naming that task.
C15_CrashConsistency ==
    [][(pc = "events" /\ pc' = "idle") =>
        \A i \in CallIdx :
            (calls[i].op = "create" /\ calls[i].ok) =>
                /\ has_synced_event(_load(file'), calls[i].uid)
                /\ get_synced_event(_load(file'), calls[i].uid).todoist_task_id
                       = calls[i].task]_vars

\* ------------------------------------------------------------------ C16
\* C16: at the end of the passes of a run over a non-empty event list, every
\* entry the run loaded whose uid is not in the list has been removed,
\* whether its due snapshot is in the future or not.
C16_UniformRemoval ==
    (pc = "save" /\ events # <<>>) =>
        \A u \in DOMAIN Loaded.synced_events :
            u \notin current_event_uids => ~has_synced_event(state, u)

\* ------------------------------------------------------------------ C17
\* C17: when the per-event pass handles an event that has a ledger entry, a
\* changed digest and a task that is no longer open in the store, it issues
\* no update_task call and exactly one create_task call, and when that call
\* succeeds the ledger holds one entry for the uid, with the new task id,
\* the new digest and the new due snapshot.
C17_StaleEntryReplaced ==
    [][(/\ pc = "events"
        /\ pc' # "idle"
        /\ Synced
        /\ ~Unchanged
        /\ ~Live(get_synced_event(state, Event.uid).todoist_task_id)) =>
        LET new == {i \in (Len(calls) + 1)..Len(calls') :
                        calls'[i].uid = Event.uid}
            creates == {i \in new : calls'[i].op = "create"}
        IN  /\ \A i \in new : calls'[i].op # "update"
            /\ Cardinality(creates) = 1
            /\ \A i \in creates :
                calls'[i].ok =>
                    /\ has_synced_event(state', Event.uid)
                    /\ get_synced_event(state', Event.uid) =
                           [todoist_task_id |-> calls'[i].task,
                            event_hash |-> compute_event_hash(Event),
                            synced_at |-> now,
                            due_date |-> Event.due_date]
                    /\ calls'[i].task #
                           get_synced_event(state, Event.uid).todoist_task_id]_vars

\* ------------------------------------------------------------------ C18
\* C18: over runs that each end by themselves, with nobody else changing
\* the store, no two open tasks of the store were created for the same
\* event uid.
C18_NoDuplicateTasks ==
    \A t1 \in TaskIds : \A t2 \in TaskIds :
        (t1 # t2 /\ Live(t1) /\ Live(t2)) => tasks[t1].uid # tasks[t2].uid

\* ------------------------------------------------------------------ C19
\* The entries of a ledger name tasks that create_task made for their uid.
Provenance(st) ==
    \A u \in DOMAIN st.synced_events :
        /\ st.synced_events[u].todoist_task_id \in TaskIds
        /\ tasks[st.synced_events[u].todoist_task_id].uid = u

\* C19: after every step, each entry of the ledger in memory and of the
\* ledger on file names a task that a successful create_task call made for
\* the entry's uid; a step of a run that keeps an entry keeps its task id
\* unless it creates a task for the uid, so the update path never changes
\* it; and a step of a run removes an entry only in the disappearance pass.
C19_LedgerProvenance ==
    [][/\ Provenance(state)'
       /\ Provenance(Loaded)'
       /\ (pc \in Running /\ pc' # "idle") =>
            \A u \in DOMAIN state.synced_events :
                /\ ~has_synced_event(state', u) => pc = "disappear"
                /\ (/\ has_synced_event(state', u)
                    /\ get_synced_event(state', u).todoist_task_id
                           # get_synced_event(state, u).todoist_task_id) =>
                        /\ Len(tasks') = Len(tasks) + 1
                        /\ get_synced_event(state', u).todoist_task_id = Len(tasks')
                        /\ tasks'[Len(tasks')].uid = u]_vars

\* A run has updated the task of one entry, which still names the task it
\* named, and retired the entry of an absent event.
C19_Witness ==
    /\ pc = "save"
    /\ stats.updated > 0
    /\ stats.completed > 0
    /\ \E u \in DOMAIN state.synced_events :
        /\ has_synced_event(Loaded, u)
        /\ get_synced_event(state, u).todoist_task_id
               = get_synced_event(Loaded, u).todoist_task_id
        /\ get_synced_event(state, u).event_hash
               # get_synced_event(Loaded, u).event_hash

\* ------------------------------------------------------------------ C20
\* The entry's digest is that of an event with the summary, due date and
\* description of the event at hand, whatever its tier was.
FieldsUnchanged ==
    /\ Synced
    /\ \E p \in 1..4 :
        get_synced_event(state, Event.uid).event_hash
            = compute_event_hash([Event EXCEPT !.priority = p])

\* C20: when the per-event pass handles an event whose summary, due date
\* and description are those its entry was recorded with, it issues no
\* remote call (no update_task in particular) and leaves the task store,
\* with the task's priority, and the ledger as they are, also when the
\* event's priority tier has changed with the passing of time.
C20_TimeAloneNoUpdate ==
    [][(pc = "events" /\ pc' # "idle" /\ FieldsUnchanged) =>
        /\ calls' = calls
        /\ tasks' = tasks
        /\ state' = state]_vars

\* An event has been passed over whose tier is no longer the priority its
\* open task was given.
C20_Witness ==
    /\ pc \in {"events", "save"}
    /\ stats.skipped > 0
    /\ \E i \in 1..(idx - 1) :
        /\ has_synced_event(state, events[i].uid)
        /\ get_synced_event(state, events[i].uid).event_hash
               = compute_event_hash(events[i])
        /\ Live(get_synced_event(state, events[i].uid).todoist_task_id)
        /\ tasks[get_synced_event(state, events[i].uid).todoist_task_id].priority
               # events[i].priority

====
